---- MODULE Spec2Model ----
(***************************************************************************)
(* Model of src/main.py: the "Simple Data Receiver".                       *)
(*                                                                         *)
(*   POST /upload  (upload_data, guarded by get_api_key)                   *)
(*   GET  /feed    (get_feed, which classifies each document with          *)
(*                  parse_data)                                            *)
(*   parse_tool_call, parse_text_content: helpers no route calls           *)
(*                                                                         *)
(* Python strings are TLA+ strings (Len, SubSeq and \o work on them);      *)
(* every other Python value is a record of one shape, see PyValue below.   *)
(*                                                                         *)
(* Line 112 of the source opens the branch chain with `elif`, because the  *)
(* `if 'status' in content_data:` that headed it (line 103) is commented   *)
(* out.  The model reads line 112 as the head `if` of the chain.           *)
(***************************************************************************)
EXTENDS Integers, Sequences, FiniteSets, TLC

(***************************************************************************)
(* Bounds of the model.                                                    *)
(***************************************************************************)
\* most documents the collection holds in a run
MaxRecords == 3
\* last reading of the server clock (one unit is one stored millisecond)
MaxClock == 2
\* the argument of .limit(...) in get_feed; the source passes 50, the model
\* a value the bounded collection can exceed
FeedLimit == 2

(***************************************************************************)
(* Python values.  kind is one of "none", "bool", "int", "float", "str",   *)
(* "list", "dict", "datetime", "oid"; a dict keeps its keys (strings) and  *)
(* its values in two sequences of equal length, in insertion order.        *)
(***************************************************************************)
PyValue(k, n, s, keys, items) ==
    [kind |-> k, n |-> n, s |-> s, keys |-> keys, items |-> items]

PyNone == PyValue("none", 0, "", <<>>, <<>>)

PyInt(n) == PyValue("int", n, "", <<>>, <<>>)

PyStr(s) == PyValue("str", 0, s, <<>>, <<>>)

PyList(items) == PyValue("list", 0, "", <<>>, items)

PyDict(keys, items) == PyValue("dict", 0, "", keys, items)

\* a datetime, as the number of milliseconds since the epoch
PyDatetime(t) == PyValue("datetime", t, "", <<>>, <<>>)

\* a bson ObjectId, as the rank of its creation
PyObjectId(n) == PyValue("oid", n, "", <<>>, <<>>)

Range(f) == {f[i] : i \in DOMAIN f}

Min(S) == CHOOSE x \in S : \A y \in S : x <= y

\* d.get(key, default) on a dict d
dict_get(d, key, default) ==
    IF key \in Range(d.keys)
    THEN d.items[CHOOSE i \in DOMAIN d.keys : d.keys[i] = key]
    ELSE default

\* d[key] on a dict d that has the key
dict_item(d, key) == dict_get(d, key, PyNone)

\* type(v).__name__
type_name(v) ==
    CASE v.kind = "none" -> "NoneType"
      [] v.kind = "str" -> "str"
      [] v.kind = "int" -> "int"
      [] v.kind = "list" -> "list"
      [] v.kind = "dict" -> "dict"
      [] v.kind = "bool" -> "bool"
      [] v.kind = "float" -> "float"
      [] v.kind = "datetime" -> "datetime.datetime"
      [] OTHER -> "ObjectId"

(***************************************************************************)
(* Strings: str.find, str.strip, the `in` operator and the re.search       *)
(* patterns of the source.                                                 *)
(***************************************************************************)
\* positions at which sub occurs in s
Occurrences(sub, s) ==
    {i \in 1..(Len(s) - Len(sub) + 1) : SubSeq(s, i, i + Len(sub) - 1) = sub}

\* sub in s, for two strings
str_contains(sub, s) == Occurrences(sub, s) # {}

\* the characters str.strip() removes (ASCII whitespace)
Whitespace == {" ", "\t", "\n", "\r", "\f"}

IsSpace(s, i) == SubSeq(s, i, i) \in Whitespace

\* s.lstrip(), in place of s.strip()
str_lstrip(s) ==
    LET kept == {i \in 1..Len(s) : ~IsSpace(s, i)}
    IN IF kept = {} THEN "" ELSE SubSeq(s, Min(kept), Len(s))

\* s.strip()
str_strip(s) ==
    LET kept == {i \in 1..Len(s) : ~IsSpace(s, i)}
    IN IF kept = {} THEN ""
       ELSE SubSeq(s, Min(kept), CHOOSE j \in kept : \A i \in kept : i <= j)

NoMatch == [matched |-> FALSE, group1 |-> ""]

\* re.search(prefix + "([^q]*)", s): the capture runs from the first
\* occurrence of prefix to the next q, or to the end of s
search_open(prefix, q, s) ==
    LET occ == Occurrences(prefix, s)
    IN IF occ = {} THEN NoMatch
       ELSE LET from == Min(occ) + Len(prefix)
                stops == {j \in from..Len(s) : SubSeq(s, j, j) = q}
                last == IF stops = {} THEN Len(s) ELSE Min(stops) - 1
            IN [matched |-> TRUE, group1 |-> SubSeq(s, from, last)]

\* re.search(prefix + "([^q]*)" + q, s): as search_open, but the closing q
\* is part of the pattern; when the first occurrence of prefix has no q
\* after it, no later position has one either
search_closed(prefix, q, s) ==
    LET occ == Occurrences(prefix, s)
    IN IF occ = {} THEN NoMatch
       ELSE LET from == Min(occ) + Len(prefix)
                stops == {j \in from..Len(s) : SubSeq(s, j, j) = q}
            IN IF stops = {} THEN NoMatch
               ELSE [matched |-> TRUE, group1 |-> SubSeq(s, from, Min(stops) - 1)]

(***************************************************************************)
(* str(), repr() and datetime formatting.                                  *)
(***************************************************************************)
Digits == <<"0", "1", "2", "3", "4", "5", "6", "7", "8", "9">>

RECURSIVE nat_str(_)
\* str(n) for n >= 0
nat_str(n) ==
    IF n < 10 THEN Digits[n + 1]
    ELSE nat_str(n \div 10) \o Digits[(n % 10) + 1]

\* str(n)
int_str(n) == IF n < 0 THEN "-" \o nat_str(0 - n) ELSE nat_str(n)

\* one character of repr(s) inside the quote q
repr_char(c, q) ==
    CASE c = "\\" -> "\\\\"
      [] c = "\n" -> "\\n"
      [] c = "\t" -> "\\t"
      [] c = "\r" -> "\\r"
      [] c = "\f" -> "\\x0c"
      [] c = q -> "\\" \o q
      [] OTHER -> c

RECURSIVE repr_chars(_, _, _)
\* the characters of s from position i on, escaped for the quote q
repr_chars(s, i, q) ==
    IF i > Len(s) THEN ""
    ELSE repr_char(SubSeq(s, i, i), q) \o repr_chars(s, i + 1, q)

\* repr(s) for a string: double quotes only when s has ' and has no "
str_repr(s) ==
    LET q == IF str_contains("'", s) /\ ~str_contains("\"", s) THEN "\"" ELSE "'"
    IN q \o repr_chars(s, 1, q) \o q

\* datetime.isoformat(sep), for a reading within the first minute of the
\* epoch; the fraction is printed only when it is not zero
datetime_format(t, sep) ==
    "1970-01-01" \o sep \o "00:00:" \o
    (IF (t \div 1000) < 10 THEN "0" ELSE "") \o nat_str(t \div 1000) \o
    (IF t % 1000 = 0 THEN ""
     ELSE "." \o (IF (t % 1000) < 100 THEN "0" ELSE "")
              \o (IF (t % 1000) < 10 THEN "0" ELSE "")
              \o nat_str(t % 1000) \o "000")

\* datetime.isoformat()
isoformat(t) == datetime_format(t, "T")

\* str(ObjectId): 24 hexadecimal digits
oid_str(n) ==
    "00000000000000000000000" \o
    SubSeq("0123456789abcdef", (n % 16) + 1, (n % 16) + 1)

RECURSIVE py_repr(_)
RECURSIVE repr_items(_, _)
RECURSIVE repr_pairs(_, _)
\* repr(v)
py_repr(v) ==
    CASE v.kind = "none" -> "None"
      [] v.kind = "int" -> int_str(v.n)
      [] v.kind = "bool" -> IF v.n = 1 THEN "True" ELSE "False"
      [] v.kind = "float" -> nat_str(v.n) \o ".0"
      [] v.kind = "str" -> str_repr(v.s)
      [] v.kind = "list" -> "[" \o repr_items(v.items, 1) \o "]"
      [] v.kind = "dict" -> "{" \o repr_pairs(v, 1) \o "}"
      [] v.kind = "datetime" ->
            "datetime.datetime(1970, 1, 1, 0, 0"
            \o (IF v.n = 0 THEN ""
                ELSE ", " \o nat_str(v.n \div 1000)
                     \o (IF v.n % 1000 = 0 THEN ""
                         ELSE ", " \o nat_str((v.n % 1000) * 1000)))
            \o ")"
      [] OTHER -> "ObjectId('" \o oid_str(v.n) \o "')"

\* the items of a list from position i on, joined by ", "
repr_items(items, i) ==
    IF i > Len(items) THEN ""
    ELSE py_repr(items[i])
         \o (IF i < Len(items) THEN ", " ELSE "")
         \o repr_items(items, i + 1)

\* the key: value pairs of a dict from position i on, joined by ", "
repr_pairs(d, i) ==
    IF i > Len(d.keys) THEN ""
    ELSE str_repr(d.keys[i]) \o ": " \o py_repr(d.items[i])
         \o (IF i < Len(d.keys) THEN ", " ELSE "")
         \o repr_pairs(d, i + 1)

\* str(v), which is also what an f-string prints for {v}
py_str(v) ==
    CASE v.kind = "str" -> v.s
      [] v.kind = "datetime" -> datetime_format(v.n, " ")
      [] v.kind = "oid" -> oid_str(v.n)
      [] OTHER -> py_repr(v)

(***************************************************************************)
(* Outcomes of a call: a returned value or an exception that leaves it.    *)
(***************************************************************************)
NoEntry == [type |-> ""]

Returned(v) == [raised |-> FALSE, exc |-> "", value |-> v]

Raised(msg) == [raised |-> TRUE, exc |-> msg, value |-> NoEntry]

\* `key in v` with a string operand compared as a whole, not searched
py_in_exact(key, v) ==
    CASE v.kind = "dict" -> Returned(key \in Range(v.keys))
      [] v.kind = "str" -> Returned(key = v.s)
      [] v.kind = "list" -> Returned(PyStr(key) \in Range(v.items))
      [] OTHER -> Raised("argument of type '" \o type_name(v) \o "' is not iterable")

\* `key in v` for a string key: FALSE/TRUE, or the TypeError Python raises
\* for an operand that is no container
py_in(key, v) ==
    CASE v.kind = "dict" -> Returned(key \in Range(v.keys))
      [] v.kind = "str" -> Returned(str_contains(key, v.s))
      [] v.kind = "list" -> Returned(PyStr(key) \in Range(v.items))
      [] OTHER -> Raised("argument of type '" \o type_name(v) \o "' is not iterable")

\* v[key] for a string key which `key in v` found
py_getitem(v, key) ==
    CASE v.kind = "dict" -> Returned(dict_item(v, key))
      [] v.kind = "str" -> Raised("string indices must be integers, not 'str'")
      [] OTHER -> Raised("list indices must be integers or slices, not str")

\* the TypeError of re.search(pattern, v) for a v that is no string
not_a_string(v) ==
    "expected string or bytes-like object, got '" \o type_name(v) \o "'"

(***************************************************************************)
(* parse_data (lines 96-163).                                              *)
(***************************************************************************)
\* the entry the except clause returns (lines 158-163)
error_entry(timestamp, msg) ==
    [type |-> "error", timestamp |-> timestamp,
     content |-> "Error parsing data: " \o msg, category |-> "error"]

\* lines 113-122: the `messages` branch
parse_messages(content_data, timestamp) ==
    LET got == py_getitem(content_data, "messages")
        message == got.value
        value_match == search_open("value=\"", "\"", message.s)
        text == IF value_match.matched THEN value_match.group1 ELSE message.s
    IN IF got.raised THEN Raised(got.exc)
       ELSE IF message.kind # "str" THEN Raised(not_a_string(message))
       ELSE Returned([type |-> "message", timestamp |-> timestamp,
                      content |-> str_strip(text), category |-> "ai_response"])

\* lines 126-146: the `tool_calls` branch
parse_tool_calls(content_data, timestamp) ==
    LET got == py_getitem(content_data, "tool_calls")
        tool_call == got.value
        id_match == search_closed("id='", "'", tool_call.s)
        call_id == IF id_match.matched THEN PyStr(id_match.group1) ELSE PyNone
        function_match == search_closed("function='", "'", tool_call.s)
        function_name == IF function_match.matched
                         THEN PyStr(function_match.group1) ELSE PyNone
        content == "Tool Call: " \o py_str(call_id)
                   \o (IF function_name.kind = "str" /\ function_name.s # ""
                       THEN " (Function: " \o function_name.s \o ")" ELSE "")
    IN IF got.raised THEN Raised(got.exc)
       ELSE IF tool_call.kind # "str" THEN Raised(not_a_string(tool_call))
       ELSE Returned([type |-> "tool_call", timestamp |-> timestamp,
                      content |-> content, call_id |-> call_id,
                      function |-> function_name, category |-> "system_action"])

\* lines 149-154: no branch taken
parse_unknown(content_data, timestamp) ==
    Returned([type |-> "unknown", timestamp |-> timestamp,
              content |-> py_str(content_data), category |-> "unknown"])

\* lines 100-154: the try block once `timestamp` is bound
parse_body(data, timestamp) ==
    LET content_data == dict_get(data, "data", PyDict(<<>>, <<>>))
        has_messages == py_in("messages", content_data)
        has_tool_calls == py_in("tool_calls", content_data)
    IN IF has_messages.raised THEN Raised(has_messages.exc)
       ELSE IF has_messages.value THEN parse_messages(content_data, timestamp)
       ELSE IF has_tool_calls.raised THEN Raised(has_tool_calls.exc)
       ELSE IF has_tool_calls.value THEN parse_tool_calls(content_data, timestamp)
       ELSE parse_unknown(content_data, timestamp)

\* the exception that leaves parse_data when line 99 itself fails: the
\* except clause reads `timestamp` (line 160), which was never assigned
UnboundTimestamp ==
    "cannot access local variable 'timestamp' where it is not associated with a value"

\* parse_data with the clock's reading as timestamp whatever the payload holds
parse_data_render_time(data, now) ==
    IF data.kind # "dict"
    THEN Raised(UnboundTimestamp)
    ELSE LET timestamp == PyStr(isoformat(now))
             body == parse_body(data, timestamp)
         IN IF body.raised THEN Returned(error_entry(timestamp, body.exc))
            ELSE body

\* parse_data without its except clause: a failure inside leaves the call
parse_data_unguarded(data, now) ==
    IF data.kind # "dict"
    THEN Raised(UnboundTimestamp)
    ELSE parse_body(data, dict_get(data, "timestamp", PyStr(isoformat(now))))

\* parse_data(data), called when the server clock reads now
parse_data(data, now) ==
    IF data.kind # "dict"
    THEN Raised(UnboundTimestamp)
    ELSE LET timestamp == dict_get(data, "timestamp", PyStr(isoformat(now)))
             body == parse_body(data, timestamp)
         IN IF body.raised THEN Returned(error_entry(timestamp, body.exc))
            ELSE body

(***************************************************************************)
(* parse_text_content (lines 259-273).                                     *)
(***************************************************************************)
parse_text_content(data) ==
    IF data.kind # "str"
    THEN [type |-> "text_content", error |-> not_a_string(data), raw |-> data]
    ELSE LET text_match == search_open("value=\"", "\"", data.s)
         IN [type |-> "text_content",
             text |-> IF text_match.matched THEN text_match.group1 ELSE data.s,
             raw |-> data]

(***************************************************************************)
(* json.loads (json/decoder.py, json/scanner.py), for texts made of        *)
(* lower-case letters, digits, blanks and the marks { } [ ] " : , only.    *)
(* No backslash, control character, sign, decimal point or capital letter  *)
(* occurs, so a string has no escapes, a number is digits with an optional *)
(* exponent, and every text is one line.  Positions are 1-based; Python    *)
(* reports the position i as "column i (char i-1)".                        *)
(***************************************************************************)
DigitChars == {"0", "1", "2", "3", "4", "5", "6", "7", "8", "9"}

\* s[i:i+1] with a 1-based i
CharAt(s, i) == IF i >= 1 /\ i <= Len(s) THEN SubSeq(s, i, i) ELSE ""

\* s[i-1:j], the characters at the 1-based positions i..j that exist
Slice(s, i, j) == SubSeq(s, i, IF j > Len(s) THEN Len(s) ELSE j)

PyBool(b) == PyValue("bool", IF b THEN 1 ELSE 0, "", <<>>, <<>>)

\* a float whose value is the whole number n
PyFloat(n) == PyValue("float", n, "", <<>>, <<>>)

Parsed(v, end) == [ok |-> TRUE, value |-> v, end |-> end, msg |-> "", pos |-> 0]

Failed(msg, pos) == [ok |-> FALSE, value |-> PyNone, end |-> 0, msg |-> msg, pos |-> pos]

\* WHITESPACE.match(s, i).end(): the first position from i on that holds no blank
skip_ws(s, i) ==
    Min({j \in i..(Len(s) + 1) : CharAt(s, j) # " "})

\* the first position from i on that holds no digit
skip_digits(s, i) ==
    Min({j \in i..(Len(s) + 1) : CharAt(s, j) \notin DigitChars})

RECURSIVE digits_value(_, _, _)
\* int(s[i:j]) for a run of digits
digits_value(s, i, j) ==
    IF j <= i THEN 0
    ELSE 10 * digits_value(s, i, j - 1)
         + (CHOOSE d \in 0..9 : Digits[d + 1] = CharAt(s, j - 1))

RECURSIVE power_of_ten(_)
power_of_ten(n) == IF n = 0 THEN 1 ELSE 10 * power_of_ten(n - 1)

\* NUMBER_RE at i: (0|[1-9]\d*)(e\d+)?, the exponent kept only when a digit follows it
match_number(s, i) ==
    LET int_end == IF CharAt(s, i) = "0" THEN i + 1 ELSE skip_digits(s, i)
        has_exp == CharAt(s, int_end) = "e" /\ CharAt(s, int_end + 1) \in DigitChars
        exp_end == skip_digits(s, int_end + 1)
    IN IF has_exp
       THEN Parsed(PyFloat(digits_value(s, i, int_end)
                           * power_of_ten(digits_value(s, int_end + 1, exp_end))),
                   exp_end)
       ELSE Parsed(PyInt(digits_value(s, i, int_end)), int_end)

\* scanstring(s, i): i is the position after the opening quote
scanstring(s, i) ==
    LET quotes == {j \in i..Len(s) : CharAt(s, j) = "\""}
    IN IF quotes = {} THEN Failed("Unterminated string starting at", i - 1)
       ELSE Parsed(PyStr(SubSeq(s, i, Min(quotes) - 1)), Min(quotes) + 1)

\* dict(pairs): a later value of a key replaces the earlier one in place
dict_set(d, key, v) ==
    IF key \in Range(d.keys)
    THEN PyDict(d.keys, [i \in DOMAIN d.items |->
                            IF d.keys[i] = key THEN v ELSE d.items[i]])
    ELSE PyDict(Append(d.keys, key), Append(d.items, v))

\* the blanks the decoder skips before a value: s[end] and what follows it
skip_before_value(s, i) == IF CharAt(s, i) = " " THEN skip_ws(s, i + 1) ELSE i

RECURSIVE scan_once(_, _)
RECURSIVE JSONObject(_, _)
RECURSIVE object_members(_, _, _)
RECURSIVE JSONArray(_, _)
RECURSIVE array_elements(_, _, _)
\* py_make_scanner._scan_once(s, i)
scan_once(s, i) ==
    LET c == CharAt(s, i)
    IN CASE c = "\"" -> scanstring(s, i + 1)
         [] c = "{" -> JSONObject(s, i + 1)
         [] c = "[" -> JSONArray(s, i + 1)
         [] c = "n" /\ Slice(s, i, i + 3) = "null" -> Parsed(PyNone, i + 4)
         [] c = "t" /\ Slice(s, i, i + 3) = "true" -> Parsed(PyBool(TRUE), i + 4)
         [] c = "f" /\ Slice(s, i, i + 4) = "false" -> Parsed(PyBool(FALSE), i + 5)
         [] c \in DigitChars -> match_number(s, i)
         [] OTHER -> Failed("Expecting value", i)

\* JSONObject(s, i): i is the position after the opening brace
JSONObject(s, i) ==
    LET first == IF CharAt(s, i) = " " THEN skip_ws(s, i) ELSE i
    IN IF CharAt(s, first) = "}" THEN Parsed(PyDict(<<>>, <<>>), first + 1)
       ELSE IF CharAt(s, first) # "\""
       THEN Failed("Expecting property name enclosed in double quotes", first)
       ELSE object_members(s, first + 1, PyDict(<<>>, <<>>))

\* the loop of JSONObject: i is the position after the opening quote of a key
object_members(s, i, pairs) ==
    LET key == scanstring(s, i)
        colon == IF CharAt(s, key.end) = ":" THEN key.end ELSE skip_ws(s, key.end)
        member == scan_once(s, skip_before_value(s, colon + 1))
        after == skip_before_value(s, member.end)
        comma == skip_ws(s, after + 1)
    IN IF ~key.ok THEN key
       ELSE IF CharAt(s, colon) # ":" THEN Failed("Expecting ':' delimiter", colon)
       ELSE IF ~member.ok THEN member
       ELSE IF CharAt(s, after) = "}"
       THEN Parsed(dict_set(pairs, key.value.s, member.value), after + 1)
       ELSE IF CharAt(s, after) # "," THEN Failed("Expecting ',' delimiter", after)
       ELSE IF CharAt(s, comma) # "\""
       THEN Failed("Expecting property name enclosed in double quotes", comma)
       ELSE object_members(s, comma + 1, dict_set(pairs, key.value.s, member.value))

\* JSONArray(s, i): i is the position after the opening bracket
JSONArray(s, i) ==
    LET first == skip_before_value(s, i)
    IN IF CharAt(s, first) = "]" THEN Parsed(PyList(<<>>), first + 1)
       ELSE array_elements(s, first, <<>>)

\* the loop of JSONArray: i is the position of an element
array_elements(s, i, values) ==
    LET element == scan_once(s, i)
        after == skip_before_value(s, element.end)
    IN IF ~element.ok THEN element
       ELSE IF CharAt(s, after) = "]"
       THEN Parsed(PyList(Append(values, element.value)), after + 1)
       ELSE IF CharAt(s, after) # "," THEN Failed("Expecting ',' delimiter", after)
       ELSE array_elements(s, skip_before_value(s, after + 1),
                           Append(values, element.value))

\* str(JSONDecodeError(msg, s, pos)) for a text of one line
decode_error(msg, pos) ==
    msg \o ": line 1 column " \o nat_str(pos) \o " (char " \o nat_str(pos - 1) \o ")"

\* json.loads with an empty mapping in place of the JSONDecodeError
json_loads_or_empty(s) ==
    LET obj == scan_once(s, skip_ws(s, 1))
    IN IF ~obj.ok \/ skip_ws(s, obj.end) # Len(s) + 1
       THEN Returned(PyDict(<<>>, <<>>))
       ELSE Returned(obj.value)

\* json.loads(s): the decoded value, or the JSONDecodeError raised
json_loads(s) ==
    LET obj == scan_once(s, skip_ws(s, 1))
        end == skip_ws(s, obj.end)
    IN IF ~obj.ok THEN Raised(decode_error(obj.msg, obj.pos))
       ELSE IF end # Len(s) + 1 THEN Raised(decode_error("Extra data", end))
       ELSE Returned(obj.value)

(***************************************************************************)
(* parse_tool_call (lines 239-257).                                        *)
(***************************************************************************)
parse_tool_call(data) ==
    LET function_match == search_closed("name='", "'", data.s)
        arguments_match == search_closed("arguments='", "'", data.s)
        function_name == IF function_match.matched
                         THEN function_match.group1 ELSE "unknown"
        arguments == IF arguments_match.matched
                     THEN json_loads(arguments_match.group1)
                     ELSE Returned(PyDict(<<>>, <<>>))
    IN IF data.kind # "str"
       THEN [type |-> "tool_call", error |-> not_a_string(data), raw |-> data]
       ELSE IF arguments.raised
       THEN [type |-> "tool_call", error |-> arguments.exc, raw |-> data]
       ELSE [type |-> "tool_call", function_name |-> function_name,
             arguments |-> arguments.value, raw |-> data]

(***************************************************************************)
(* The server: configuration, state, and the two routes.                   *)
(***************************************************************************)
\* os.getenv("API_KEY"); the module refuses to load when it is empty
API_KEY == "secret"

\* the X-API-Key header of a request: absent, wrong, or right
NoHeader == "<no header>"

ApiKeyHeaders == {NoHeader, "guess", API_KEY}

\* the message the driver's exception carries when the store cannot be reached
StorageError == "connection closed"

VARIABLES storage, clock, response, call, prev

vars == <<storage, clock, response, call, prev>>

\* storage:  the documents of collection `data_logs`, in insertion order
\* clock:    the reading of the server clock
\* response: what the last HTTP request was answered with
\* call:     the last direct call of a parse function, and its outcome
\* prev:     the call of parse_data before a repeated one

NoResponse ==
    [route |-> "", status |-> 0, key |-> "", id |-> "", detail |-> "",
     entries |-> <<>>, blocks |-> <<>>]

NoCall == [fn |-> "", arg |-> PyNone, now |-> 0, out |-> Raised("")]

\* datetime.utcnow() and datetime.now(); the server's zone is taken to be UTC
datetime_now(now) == PyDatetime(now)

\* get_api_key that only asks for the header to be there
get_api_key_present(api_key_header) == api_key_header # NoHeader

\* get_api_key (lines 47-53): TRUE when the request passes.  APIKeyHeader
\* with auto_error=True has already refused a request without the header.
get_api_key(api_key_header) ==
    api_key_header # NoHeader /\ api_key_header = API_KEY

\* pydantic's check of DataUpload.data: Dict[str, Any]
valid_upload(data) == data.kind = "dict"

\* the document without its timestamp
new_document_untimed(coll, data, now) ==
    PyDict(<<"_id", "data", "raw_data">>,
           <<PyObjectId(Len(coll) + 1), data, PyStr(py_str(data))>>)

\* the document upload_data builds (lines 65-69), with the _id the driver adds
new_document(coll, data, now) ==
    PyDict(<<"_id", "timestamp", "data", "raw_data">>,
           <<PyObjectId(Len(coll) + 1), datetime_now(now), data, PyStr(py_str(data))>>)

\* insert_one into a collection capped at two documents: the oldest is dropped
insert_one_capped(coll, document) ==
    IF Len(coll) >= 2 THEN Append(Tail(coll), document) ELSE Append(coll, document)

\* collection.insert_one(document)
insert_one(coll, document) == Append(coll, document)

\* the fields of a stored document
doc_id(d) == dict_item(d, "_id").n

doc_timestamp(d) == dict_item(d, "timestamp").n

doc_data(d) == dict_item(d, "data")

\* POST /upload (lines 58-94)
upload_data(api_key_header, data, insert_ok) ==
    /\ Len(storage) < MaxRecords
    /\ IF ~get_api_key(api_key_header)
       THEN /\ response' = [NoResponse EXCEPT !.route = "upload", !.status = 403,
                               !.key = api_key_header,
                               !.detail = IF api_key_header = NoHeader
                                          THEN "Not authenticated"
                                          ELSE "Invalid API Key"]
            /\ UNCHANGED storage
       ELSE IF ~valid_upload(data)
       THEN /\ response' = [NoResponse EXCEPT !.route = "upload", !.status = 422,
                               !.key = api_key_header,
                               !.detail = "Input should be a valid dictionary"]
            /\ UNCHANGED storage
       ELSE IF ~insert_ok
       THEN /\ response' = [NoResponse EXCEPT !.route = "upload", !.status = 500,
                               !.key = api_key_header,
                               !.detail = "Error saving data: " \o StorageError]
            /\ UNCHANGED storage
       ELSE LET document == new_document(storage, data, clock)
                parsed == parse_data(data, clock)
            IN /\ storage' = insert_one(storage, document)
               /\ response' =
                    IF parsed.raised
                    THEN [NoResponse EXCEPT !.route = "upload", !.status = 500,
                             !.key = api_key_header,
                             !.detail = "Error saving data: " \o parsed.exc]
                    ELSE [NoResponse EXCEPT !.route = "upload", !.status = 200,
                             !.key = api_key_header,
                             !.id = oid_str(doc_id(document)),
                             !.detail = "Data saved successfully"]
    /\ UNCHANGED <<clock, call, prev>>

\* find().sort("timestamp", 1).limit(limit): oldest first
find_sort_ascending(coll, limit) ==
    LET n == IF Len(coll) < limit THEN Len(coll) ELSE limit
        key == [i \in 1..Len(coll) |-> doc_timestamp(coll[i])]
    IN {[k \in 1..n |-> coll[pick[k]]] :
          pick \in {f \in [1..n -> 1..Len(coll)] :
                      /\ \A k, l \in 1..n : k # l => f[k] # f[l]
                      /\ \A k, l \in 1..n : k < l => key[f[k]] <= key[f[l]]
                      /\ \A k \in 1..n : \A i \in 1..Len(coll) :
                            (\A l \in 1..n : f[l] # i) => key[i] >= key[f[k]]}}

\* the orders in which find().sort("timestamp", -1).limit(limit) may return
\* the documents of coll: newest timestamp first, no document left out in
\* favour of an older one; the store fixes no order among equal timestamps
find_sort_limit(coll, limit) ==
    LET n == IF Len(coll) < limit THEN Len(coll) ELSE limit
        key == [i \in 1..Len(coll) |-> doc_timestamp(coll[i])]
    IN {[k \in 1..n |-> coll[pick[k]]] :
          pick \in {f \in [1..n -> 1..Len(coll)] :
                      /\ \A k, l \in 1..n : k # l => f[k] # f[l]
                      /\ \A k, l \in 1..n : k < l => key[f[k]] >= key[f[l]]
                      /\ \A k \in 1..n : \A i \in 1..Len(coll) :
                            (\A l \in 1..n : f[l] # i) => key[i] <= key[f[k]]}}

\* the table of prefixes (lines 215-221)
prefix_of(category_class) ==
    CASE category_class = "ai_response" -> ">> AI:"
      [] category_class = "system_action" -> "## SYS:"
      [] category_class = "system_status" -> "!! STATUS:"
      [] category_class = "error" -> "** ERROR:"
      [] category_class = "unknown" -> "?? LOG:"
      [] OTHER -> "-- LOG:"

\* the <div class="entry ..."> block of one parsed entry (lines 213-230)
display_block(parsed) ==
    [category_class |-> parsed.category,
     timestamp |-> py_str(parsed.timestamp),
     prefix |-> prefix_of(parsed.category),
     content |-> parsed.content]

RECURSIVE render_entries(_, _, _)
\* the loop of lines 211-230 from entry k on: the blocks it appends, or the
\* exception that ends it
render_entries(entries, k, now) ==
    IF k > Len(entries) THEN Returned(<<>>)
    ELSE LET parsed == parse_data(entries[k], now)
             rest == render_entries(entries, k + 1, now)
         IN IF parsed.raised THEN Raised(parsed.exc)
            ELSE IF rest.raised THEN rest
            ELSE Returned(<<display_block(parsed.value)>> \o rest.value)

\* the HTMLResponse of lines 233 and 237
feed_response(entries, rendered) ==
    IF rendered.raised
    THEN [NoResponse EXCEPT !.route = "feed", !.status = 200, !.entries = entries,
             !.detail = "Error loading feed: " \o rendered.exc]
    ELSE [NoResponse EXCEPT !.route = "feed", !.status = 200, !.entries = entries,
             !.blocks = rendered.value]

\* GET /feed (lines 165-237)
get_feed(find_ok, entries) ==
    /\ response' = IF find_ok
                   THEN feed_response(entries, render_entries(entries, 1, clock))
                   ELSE feed_response(<<>>, Raised(StorageError))
    /\ UNCHANGED <<storage, clock, call, prev>>

\* the server clock advances
Tick ==
    /\ clock < MaxClock
    /\ clock' = clock + 1
    /\ UNCHANGED <<storage, response, call, prev>>

(***************************************************************************)
(* Requests the model sends.                                               *)
(***************************************************************************)
\* bodies of POST /upload, as the value of their `data` field: a message, a
\* tool call, a message that is no string, and a body pydantic refuses
UploadBodies ==
    {PyDict(<<"messages">>, <<PyStr("Text(value=\" hi \")")>>),
     PyDict(<<"tool_calls">>, <<PyStr("ToolCall(id='c1', function='f')")>>),
     PyDict(<<"messages">>, <<PyInt(5)>>),
     PyList(<<PyInt(1)>>)}

Upload == \E h \in ApiKeyHeaders, d \in UploadBodies, ok \in BOOLEAN : upload_data(h, d, ok)

Feed ==
    \/ get_feed(FALSE, <<>>)
    \/ \E entries \in find_sort_limit(storage, FeedLimit) : get_feed(TRUE, entries)

Init ==
    /\ storage = <<>>
    /\ clock = 0
    /\ response = NoResponse
    /\ call = NoCall
    /\ prev = NoCall

Next == Tick \/ Upload \/ Feed

Spec == Init /\ [][Next]_vars

(***************************************************************************)
(* Direct calls of the parse functions, on bounded sets of arguments: a    *)
(* run makes one call, at any reading of the clock, and may repeat a call  *)
(* of parse_data at later readings.                                        *)
(***************************************************************************)
\* what stands before the first value=" of a message
MessageHeads == {"", "x ", "'q' ", "value= "}

\* the text X captured after value="
CapturedTexts == {"", "hi", " hi ", "\thi there\n", "  "}

\* what follows X: nothing, the closing quote, or more text with a second value="
MessageTails == {"", "\"", "\") value=\"no\""}

\* messages that hold the pattern value="
PatternMessages ==
    {head \o "value=\"" \o x \o tail :
        head \in MessageHeads, x \in CapturedTexts, tail \in MessageTails}

\* values of data["messages"]
MessageValues ==
    {PyStr(m) : m \in PatternMessages \cup {"", " plain text ", "value=5"}}
    \cup {PyInt(5), PyNone, PyList(<<PyStr("value=\"x\"")>>)}

\* values of data["tool_calls"]
ToolCallValues ==
    {PyStr(t) : t \in {"ToolCall(id='c1', function='f')", "id='c1'", "id='c1', function=''",
                       "function='f'", "id='c1", "call_id='', function='g'", ""}}
    \cup {PyInt(3), PyNone}

\* values of the nested `data` field that are no mapping with a known key
OtherDataValues ==
    {PyNone, PyInt(5), PyStr("hello"), PyStr(""), PyStr("no messages here"),
     PyStr("tool_calls"), PyList(<<>>), PyList(<<PyInt(1)>>),
     PyList(<<PyStr("messages")>>), PyList(<<PyStr("tool_calls")>>),
     PyDict(<<>>, <<>>), PyDict(<<"status">>, <<PyStr("ok")>>),
     PyDict(<<"Messages", "it's">>, <<PyStr("a\"b"), PyList(<<PyNone, PyStr("q'\n")>>)>>)}

\* values of the nested `data` field
DataValues ==
    OtherDataValues
    \cup {PyDict(<<"messages">>, <<m>>) : m \in MessageValues}
    \cup {PyDict(<<"tool_calls">>, <<t>>) : t \in ToolCallValues}
    \cup {PyDict(<<"tool_calls", "messages">>, <<t, m>>) :
             t \in {PyStr("id='c1'"), PyInt(3)},
             m \in {PyStr("value=\" both \""), PyStr("none"), PyInt(5)}}

\* the client's own timestamp, when the payload has one
ClientTimestamp == PyStr("2024-05-01T10:00:00")

\* arguments of parse_data: mappings with or without `data` and `timestamp`,
\* and JSON values that are no mapping
Payloads ==
    {PyDict(<<"data">>, <<d>>) : d \in DataValues}
    \cup {PyDict(<<"timestamp", "data">>, <<ClientTimestamp, d>>) : d \in DataValues}
    \cup {PyDict(<<>>, <<>>), PyDict(<<"timestamp">>, <<ClientTimestamp>>),
          PyDict(<<"messages">>, <<PyStr("value=\"top\"")>>)}
    \cup {PyNone, PyInt(7), PyStr("messages"), PyList(<<>>),
          PyList(<<PyDict(<<"data">>, <<PyDict(<<>>, <<>>)>>)>>)}

\* the text between arguments=' and the next '
ArgumentTexts ==
    {"{}", "{not valid json}", "", " ", "{\"a\": 1}", "{\"a\": 1,}", "{\"a\" 1}",
     "{\"a\": }", "{\"a\": 1} x", "{\"a\": {\"b\": []}, \"a\": 2}", "{ }", "{ \"a\" : 1 , \"b\":2}",
     "{\"a\": 1 \"b\": 2}", "{\"a", "{1: 2}", "[1, 2]", "[1,]", "[ ]", "[1 2]", "[", "[1, [true, null]]",
     "true", "false", "nul", "12", "1e2", "01", "1e", " 5 ", "\"s\"", "\"s", "x"}

\* arguments of parse_tool_call
ToolCallTexts ==
    {PyStr(head \o "arguments='" \o a \o "'" \o tail) :
        head \in {"", "RequiredActionFunctionToolCall(name='f', "},
        a \in ArgumentTexts, tail \in {"", ")"}}
    \cup {PyStr("name='f'"), PyStr("arguments='{}"), PyStr(""), PyInt(1), PyNone}

CallParseData ==
    \E p \in Payloads :
        /\ call = NoCall
        /\ call' = [fn |-> "parse_data", arg |-> p, now |-> clock,
                    out |-> parse_data(p, clock)]
        /\ prev' = NoCall
        /\ UNCHANGED <<storage, clock, response>>

\* parse_data is called again on the argument of the last call
RepeatParseData ==
    /\ call.fn = "parse_data"
    /\ call' = [call EXCEPT !.now = clock, !.out = parse_data(call.arg, clock)]
    /\ prev' = call
    /\ UNCHANGED <<storage, clock, response>>

CallParseToolCall ==
    \E d \in ToolCallTexts :
        /\ call = NoCall
        /\ call' = [fn |-> "parse_tool_call", arg |-> d, now |-> clock,
                    out |-> Returned(parse_tool_call(d))]
        /\ prev' = NoCall
        /\ UNCHANGED <<storage, clock, response>>

CallParseTextContent ==
    \E d \in MessageValues :
        /\ call = NoCall
        /\ call' = [fn |-> "parse_text_content", arg |-> d, now |-> clock,
                    out |-> Returned(parse_text_content(d))]
        /\ prev' = NoCall
        /\ UNCHANGED <<storage, clock, response>>

NextCalls ==
    Tick \/ CallParseData \/ RepeatParseData \/ CallParseToolCall \/ CallParseTextContent

SpecCalls == Init /\ [][NextCalls]_vars

(***************************************************************************)
(* Properties of parse_data, checked under SpecCalls.                      *)
(***************************************************************************)
\* v is a mapping that has the key
HasKey(v, key) == v.kind = "dict" /\ \E i \in DOMAIN v.keys : v.keys[i] = key

\* the nested `data` field of a mapping payload, {} when it is absent
NestedData(p) ==
    IF HasKey(p, "data")
    THEN p.items[CHOOSE i \in DOMAIN p.keys : p.keys[i] = "data"]
    ELSE PyDict(<<>>, <<>>)

ParseDataCalled == call.fn = "parse_data"

\* C1: parse_data is total: whatever JSON value it is given (a mapping, a
\* list, a string, a number, null), it returns an entry of one of its four
\* types and no exception leaves it.
C1_ParseDataTotal ==
    ParseDataCalled =>
        /\ ~call.out.raised
        /\ call.out.value.type \in {"message", "tool_call", "unknown", "error"}

\* the name occurs in v the way Python's `in` looks for it: as a key of a
\* mapping, as a substring of a string, as an element of a list
Mentions(v, name) ==
    \/ HasKey(v, name)
    \/ v.kind = "str" /\ \E i \in 1..Len(v.s) : \E j \in i..Len(v.s) : SubSeq(v.s, i, j) = name
    \/ v.kind = "list" /\ \E i \in DOMAIN v.items : v.items[i] = PyStr(name)

\* C5 as stated: a mapping payload whose nested `data` has neither a
\* `messages` nor a `tool_calls` key (absent, null, empty, or no mapping at
\* all) is classified as unknown, and parse_data does not raise.
C5_UnknownForEveryOtherShape ==
    (/\ ParseDataCalled
     /\ call.arg.kind = "dict"
     /\ ~HasKey(NestedData(call.arg), "messages")
     /\ ~HasKey(NestedData(call.arg), "tool_calls"))
    => (~call.out.raised /\ call.out.value.type = "unknown")

\* C5 amended: for a mapping payload whose nested `data` has neither key,
\* parse_data does not raise; it returns type unknown exactly when `data` is
\* absent or is a mapping, string or list that does not mention `messages`
\* or `tool_calls`, and type error otherwise (null, a number, or a string or
\* list that mentions one of the two names).
C5_UnknownUnlessNotSearchable ==
    (/\ ParseDataCalled
     /\ call.arg.kind = "dict"
     /\ ~HasKey(NestedData(call.arg), "messages")
     /\ ~HasKey(NestedData(call.arg), "tool_calls"))
    => LET d == NestedData(call.arg)
           searchable == d.kind \in {"dict", "str", "list"}
           mentioned == Mentions(d, "messages") \/ Mentions(d, "tool_calls")
       IN /\ ~call.out.raised
          /\ call.out.value.type = IF searchable /\ ~mentioned THEN "unknown" ELSE "error"

C5_Witness ==
    /\ ParseDataCalled
    /\ call.arg.kind = "dict"
    /\ NestedData(call.arg) = PyStr("hello")
    /\ call.out.value.type = "unknown"

\* the strings t that s.strip() may be: s is blanks, t, blanks, and t neither
\* starts nor ends with a blank
IsTrimOf(t, s) ==
    /\ \E i \in 1..(Len(s) + 1) : \E j \in (i - 1)..Len(s) :
          /\ t = SubSeq(s, i, j)
          /\ \A k \in (1..(i - 1)) \cup ((j + 1)..Len(s)) : SubSeq(s, k, k) \in Whitespace
    /\ t # "" => /\ SubSeq(t, 1, 1) \notin Whitespace
                 /\ SubSeq(t, Len(t), Len(t)) \notin Whitespace

ValueMarker == "value=\""

\* C6: when data.messages is a string in which value="X" occurs, X being
\* the text from the first value=" to the next double quote, the entry's
\* content is X without its leading and trailing whitespace and its category
\* is ai_response, also when data has a `tool_calls` key as well.
C6_MessageContent ==
    (/\ ParseDataCalled
     /\ HasKey(call.arg, "data")
     /\ HasKey(NestedData(call.arg), "messages"))
    => LET m == dict_item(NestedData(call.arg), "messages")
       IN m.kind = "str" =>
            \A i \in 1..Len(m.s) : \A j \in (i + Len(ValueMarker))..Len(m.s) :
               (/\ SubSeq(m.s, i, i + Len(ValueMarker) - 1) = ValueMarker
                /\ \A h \in 1..(i - 1) : SubSeq(m.s, h, h + Len(ValueMarker) - 1) # ValueMarker
                /\ SubSeq(m.s, j, j) = "\""
                /\ \A k \in (i + Len(ValueMarker))..(j - 1) : SubSeq(m.s, k, k) # "\"")
               => /\ ~call.out.raised
                  /\ call.out.value.category = "ai_response"
                  /\ IsTrimOf(call.out.value.content,
                              SubSeq(m.s, i + Len(ValueMarker), j - 1))

C6_Witness ==
    /\ ParseDataCalled
    /\ NestedData(call.arg) =
          PyDict(<<"tool_calls", "messages">>, <<PyStr("id='c1'"), PyStr("value=\" both \"")>>)
    /\ call.out.value.content = "both"
    /\ call.out.value.category = "ai_response"

\* parse_data was called a second time on the same payload at another
\* reading of the clock, and both calls took a path other than the error path
RepeatedAtAnotherTime ==
    /\ ParseDataCalled
    /\ prev.fn = "parse_data"
    /\ prev.arg = call.arg
    /\ prev.now # call.now
    /\ ~prev.out.raised /\ prev.out.value.type # "error"
    /\ ~call.out.raised /\ call.out.value.type # "error"

\* C8 as stated: two calls of parse_data on one payload at different
\* readings of the server clock return equal entries on every non-error
\* path, also for a payload without a `timestamp` key.
C8_SameEntryAtAnyTime ==
    RepeatedAtAnotherTime => call.out.value = prev.out.value

\* an entry without its timestamp
WithoutTimestamp(entry) == [k \in (DOMAIN entry) \ {"timestamp"} |-> entry[k]]

\* C8 amended: two such calls return equal entries when the payload has a
\* `timestamp` key; without that key the two entries agree in every field
\* but timestamp, which is each call's own reading of the clock.
C8_SameEntryUpToClock ==
    RepeatedAtAnotherTime =>
        /\ WithoutTimestamp(call.out.value) = WithoutTimestamp(prev.out.value)
        /\ HasKey(call.arg, "timestamp") => call.out.value = prev.out.value
        /\ ~HasKey(call.arg, "timestamp") =>
              /\ call.out.value.timestamp = PyStr(datetime_format(call.now, "T"))
              /\ prev.out.value.timestamp = PyStr(datetime_format(prev.now, "T"))
              /\ call.out.value # prev.out.value

C8_Witness ==
    /\ RepeatedAtAnotherTime
    /\ ~HasKey(call.arg, "timestamp")
    /\ call.out.value.type = "message"
    /\ call.out.value.timestamp # prev.out.value.timestamp

(***************************************************************************)
(* Properties of parse_tool_call, checked under SpecCalls.                 *)
(***************************************************************************)
\* texts that are not JSON
MalformedArguments == {"{not valid json}", "{\"a\": 1,}", "[1,]", "nul", "01", ""}

\* parse_tool_call was given a string whose arguments='...' is malformed
MalformedToolCall ==
    /\ call.fn = "parse_tool_call"
    /\ call.arg.kind = "str"
    /\ \E a \in MalformedArguments : \E i \in 1..Len(call.arg.s) :
          /\ SubSeq(call.arg.s, 1, i - 1) \in {"", "RequiredActionFunctionToolCall(name='f', "}
          /\ Slice(call.arg.s, i, i + Len(a) + 11) = "arguments='" \o a \o "'"

\* C7 as stated: for a string whose arguments='...' is not valid JSON,
\* parse_tool_call returns an entry with type tool_call, an `arguments`
\* field equal to the empty mapping and an `error` field.
C7_EmptyArgumentsAndError ==
    MalformedToolCall =>
        /\ call.out.value.type = "tool_call"
        /\ "error" \in DOMAIN call.out.value
        /\ "arguments" \in DOMAIN call.out.value
        /\ call.out.value.arguments = PyDict(<<>>, <<>>)

\* C7 amended: for such a string parse_tool_call does not raise and returns
\* an entry with exactly the fields type = tool_call, error (the decoder's
\* message) and raw (the input); the entry has no `arguments` field.
C7_ErrorWithoutArguments ==
    MalformedToolCall =>
        /\ ~call.out.raised
        /\ DOMAIN call.out.value = {"type", "error", "raw"}
        /\ call.out.value.type = "tool_call"
        /\ call.out.value.error # ""
        /\ call.out.value.raw = call.arg

C7_Witness ==
    /\ MalformedToolCall
    /\ call.arg = PyStr("RequiredActionFunctionToolCall(name='f', arguments='{not valid json}')")
    /\ "error" \in DOMAIN call.out.value

(***************************************************************************)
(* Properties of the routes, checked under Spec.                           *)
(***************************************************************************)
\* this step answers a GET /feed
FeedAnswered == response' # response /\ response'.route = "feed"

\* this step answers a GET /feed whose read of the collection succeeded
FeedServed == FeedAnswered /\ response'.detail = ""

\* the number of documents a feed shows
Shown(coll) == IF Len(coll) < FeedLimit THEN Len(coll) ELSE FeedLimit

\* document i comes before document j in the order `newest first, equal
\* timestamps in insertion order`
ComesBefore(coll, i, j) ==
    \/ doc_timestamp(coll[i]) > doc_timestamp(coll[j])
    \/ doc_timestamp(coll[i]) = doc_timestamp(coll[j]) /\ i < j

\* the first documents of coll in that order
StableNewest(coll) ==
    [k \in 1..Shown(coll) |->
        coll[CHOOSE i \in 1..Len(coll) :
                Cardinality({j \in 1..Len(coll) : ComesBefore(coll, j, i)}) = k - 1]]

\* the blocks of a response are those of its entries, one for one
OneBlockPerEntry(r) ==
    /\ Len(r.blocks) = Len(r.entries)
    /\ \A k \in 1..Len(r.entries) :
          r.blocks[k].timestamp = datetime_format(doc_timestamp(r.entries[k]), " ")

\* C2 as stated: a feed shows one block for each of the min(limit, n) most
\* recently received documents and for no other, in descending order of
\* received_at, documents of equal received_at in insertion order.
C2_NewestFirstStableTies ==
    [][FeedServed =>
          /\ response'.entries = StableNewest(storage)
          /\ OneBlockPerEntry(response')]_vars

\* C2 amended: a feed whose read of the store succeeds shows one block for
\* each of min(limit, n) distinct stored documents, in non-increasing order
\* of received_at, and leaves out no document newer than one it shows; the
\* order among documents of equal received_at is the store's choice.
C2_NewestFirst ==
    [][FeedServed =>
          LET shown == response'.entries
          IN /\ Len(shown) = Shown(storage)
             /\ \A k \in 1..Len(shown) : \E i \in 1..Len(storage) : storage[i] = shown[k]
             /\ \A k, l \in 1..Len(shown) : k # l => doc_id(shown[k]) # doc_id(shown[l])
             /\ \A k, l \in 1..Len(shown) :
                   k < l => doc_timestamp(shown[k]) >= doc_timestamp(shown[l])
             /\ \A i \in 1..Len(storage) :
                   (\A k \in 1..Len(shown) : shown[k] # storage[i])
                      => \A k \in 1..Len(shown) :
                            doc_timestamp(storage[i]) <= doc_timestamp(shown[k])
             /\ OneBlockPerEntry(response')]_vars

\* three documents received at t1 < t2 < t3, and the feed shows t3 before t2
C2_Witness ==
    /\ Len(storage) >= 3
    /\ doc_timestamp(storage[1]) < doc_timestamp(storage[2])
    /\ doc_timestamp(storage[2]) < doc_timestamp(storage[3])
    /\ response.route = "feed"
    /\ Len(response.blocks) >= 2
    /\ response.entries[1] = storage[3]
    /\ response.entries[2] = storage[2]

\* C3: storage is append-only: a document once written stays at its place
\* with the same id, received_at and payload whatever requests follow, and
\* a feed request leaves the collection as it was.
C3_AppendOnly ==
    [][/\ Len(storage') >= Len(storage)
       /\ \A i \in 1..Len(storage) : storage'[i] = storage[i]
       /\ FeedAnswered => storage' = storage]_vars

C3_Witness ==
    /\ Len(storage) >= 2
    /\ response.route = "feed"
    /\ Len(response.entries) >= 2

\* parse_data fails inside on this stored document: the value it looks
\* into (`messages`, or `tool_calls` when there is no `messages`) is no string
ClassificationFails(d) ==
    \/ HasKey(doc_data(d), "messages") /\ dict_item(doc_data(d), "messages").kind # "str"
    \/ /\ ~HasKey(doc_data(d), "messages")
       /\ HasKey(doc_data(d), "tool_calls")
       /\ dict_item(doc_data(d), "tool_calls").kind # "str"

\* C4: a failure while classifying one document is isolated to it: the feed
\* shows an inline error block in its place and the normal block of every
\* other document; the whole feed is replaced by one error result only when
\* the collection cannot be read.
C4_FailureIsolated ==
    response.route = "feed" =>
        IF response.detail # ""
        THEN response.detail = "Error loading feed: " \o StorageError /\ response.entries = <<>>
        ELSE /\ Len(response.blocks) = Len(response.entries)
             /\ \A k \in 1..Len(response.entries) :
                   IF ClassificationFails(response.entries[k])
                   THEN /\ response.blocks[k].category_class = "error"
                        /\ response.blocks[k].prefix = "** ERROR:"
                   ELSE /\ response.blocks[k].category_class
                              \in {"ai_response", "system_action", "unknown"}
                        /\ response.blocks[k].prefix \in {">> AI:", "## SYS:", "?? LOG:"}

C4_Witness ==
    /\ response.route = "feed"
    /\ \E k, l \in 1..Len(response.blocks) :
          /\ ClassificationFails(response.entries[k])
          /\ response.blocks[k].prefix = "** ERROR:"
          /\ response.blocks[l].prefix = ">> AI:"
          /\ response.blocks[l].content = "hi"

\* the two ways a datetime is printed
TimeTexts(t) == {datetime_format(t, "T"), datetime_format(t, " ")}

\* C9 as stated: the timestamp a block shows is the server time at which
\* the feed is rendered, not the timestamp stored with the document.
C9_ShowsRenderTime ==
    [][FeedServed =>
          \A k \in 1..Len(response'.blocks) :
             response'.blocks[k].timestamp \in TimeTexts(clock)]_vars

\* C9 amended: the timestamp a block shows is the timestamp stored with the
\* document at upload; for a document rendered after the clock has moved on
\* it is not the server time of the rendering.
C9_ShowsStoredTime ==
    [][FeedServed =>
          /\ Len(response'.blocks) = Len(response'.entries)
          /\ \A k \in 1..Len(response'.blocks) :
                /\ response'.blocks[k].timestamp
                      \in TimeTexts(doc_timestamp(response'.entries[k]))
                /\ doc_timestamp(response'.entries[k]) # clock
                      => response'.blocks[k].timestamp \notin TimeTexts(clock)]_vars

C9_Witness ==
    /\ response.route = "feed"
    /\ Len(response.blocks) >= 1
    /\ doc_timestamp(response.entries[1]) < clock
    /\ response.blocks[1].timestamp = datetime_format(doc_timestamp(response.entries[1]), " ")

\* C10: an upload whose X-API-Key header is not the configured key stores
\* nothing and, when the header is present, is answered 403; the collection
\* changes only in a step that answers an upload carrying the configured key.
C10_UploadsGated ==
    [][/\ (response' # response /\ response'.route = "upload" /\ response'.key # API_KEY)
            => /\ storage' = storage
               /\ response'.key # NoHeader => response'.status = 403
       /\ storage' # storage
            => (response'.route = "upload" /\ response'.key = API_KEY)]_vars

C10_Witness ==
    /\ Len(storage) >= 1
    /\ response.route = "upload"
    /\ response.key = "guess"
    /\ response.status = 403

====
